---- MODULE Spec2Model ----
(***************************************************************************)
(* A model of OsuParser (src/src/OsuParser.ts): the line router and the    *)
(* four section decoders, with the text handling they rest on.             *)
(*                                                                         *)
(* Text is a sequence of one-character strings, so that split, trim,       *)
(* Number() and the section regex are computed, not assumed.               *)
(* A JavaScript value is a tagged record:                                  *)
(*   [t |-> "number", v |-> n]   the number n / Scale (fixed point)        *)
(*   [t |-> "NaN"]               NaN                                       *)
(*   [t |-> "undefined"]         undefined                                 *)
(*   [t |-> "string", s |-> cs]  the string with characters cs             *)
(* An exception leaving parse() is recorded in the variable thrown.        *)
(*                                                                         *)
(* The operators are written so that each is cheap to evaluate by name:    *)
(* a value used more than once is named with Let, and an array is built    *)
(* as an explicit sequence with Array.                                     *)
(***************************************************************************)
EXTENDS Integers, Sequences, FiniteSets, TLC

VARIABLES currentSection, general, difficulty, timingPoints, hitObjects, thrown

vars == <<currentSection, general, difficulty, timingPoints, hitObjects, thrown>>

doc == <<currentSection, general, difficulty, timingPoints, hitObjects>>

(***************************************************************************)
(* Bounds of the model.                                                    *)
(***************************************************************************)
\* fractional digits Number() keeps (numbers are fixed point, in 1/Scale)
FracDigits == 1
\* timing points decoded before the line source ends
MaxTimingPoints == 2
\* hit objects decoded before the line source ends
MaxHitObjects == 2

RECURSIVE Pow10(_)
Pow10(n) == IF n = 0 THEN 1 ELSE 10 * Pow10(n - 1)

Scale == Pow10(FracDigits)

(***************************************************************************)
(* JavaScript values.                                                      *)
(***************************************************************************)
Num(n) == [t |-> "number", v |-> n]
Whole(n) == Num(n * Scale)
NaN == [t |-> "NaN"]
Undef == [t |-> "undefined"]
Str(cs) == [t |-> "string", s |-> cs]

IsNum(x) == x.t = "number"
IsStr(x) == x.t = "string"

\* an array index past the end reads undefined
At(arr, i) == IF i < Len(arr) THEN arr[i + 1] ELSE Undef

Abs(n) == IF n < 0 THEN -n ELSE n

(***************************************************************************)
(* Characters and strings.                                                 *)
(***************************************************************************)
Digits == <<"0", "1", "2", "3", "4", "5", "6", "7", "8", "9">>
UpperCase == <<"A", "B", "C", "D", "E", "F", "G", "H", "I", "J", "K", "L", "M",
               "N", "O", "P", "Q", "R", "S", "T", "U", "V", "W", "X", "Y", "Z">>
LowerCase == <<"a", "b", "c", "d", "e", "f", "g", "h", "i", "j", "k", "l", "m",
               "n", "o", "p", "q", "r", "s", "t", "u", "v", "w", "x", "y", "z">>
Range(f) == {f[i] : i \in DOMAIN f}
IsDigit(c) == c \in Range(Digits)
\* the regex class [\w\d]
IsWordChar(c) == c \in Range(Digits) \cup Range(UpperCase) \cup Range(LowerCase) \cup {"_"}
IsSpace(c) == c \in {" ", "\t"}
DigitOf(c) == (CHOOSE i \in DOMAIN Digits : Digits[i] = c) - 1

\* e's value, named x in F: the value is computed once, however often F uses it
Let(e, F(_)) == CHOOSE r \in {F(x) : x \in {e}} : TRUE

\* the array with the elements f[1], ..., f[Len(f)], as an explicit sequence
Array(f) == f \o <<>>

\* the k-th smallest element of a set of numbers
Nth(P, k) == CHOOSE i \in P : Cardinality({j \in P : j < i}) = k - 1

\* String.prototype.split with a one-character separator: the pieces between
\* the separator's positions P
SplitAt(s, P) ==
  Array([k \in 1..(Cardinality(P) + 1) |->
           Str(SubSeq(s,
                      IF k = 1 THEN 1 ELSE Nth(P, k - 1) + 1,
                      IF k = Cardinality(P) + 1 THEN Len(s) ELSE Nth(P, k) - 1))])

Split(s, sep) == Let({i \in DOMAIN s : s[i] = sep}, LAMBDA P : SplitAt(s, P))

\* String.prototype.trim
Trim(s) ==
  IF \A i \in DOMAIN s : IsSpace(s[i]) THEN <<>>
  ELSE SubSeq(s,
              CHOOSE i \in DOMAIN s : ~IsSpace(s[i]) /\ \A j \in 1..(i - 1) : IsSpace(s[j]),
              CHOOSE i \in DOMAIN s : ~IsSpace(s[i]) /\ \A j \in (i + 1)..Len(s) : IsSpace(s[j]))

\* s.split(sep).map((str) => str.trim())
SplitTrim(s, sep) ==
  Let(Split(s, sep), LAMBDA parts : Array([i \in DOMAIN parts |-> Str(Trim(parts[i].s))]))

\* String.prototype.toLowerCase
ToLower(s) ==
  Array([i \in DOMAIN s |->
           IF s[i] \in Range(UpperCase)
           THEN LowerCase[CHOOSE k \in DOMAIN UpperCase : UpperCase[k] = s[i]]
           ELSE s[i]])

\* the number written by the first k digits of s
RECURSIVE DigitsVal(_, _)
DigitsVal(s, k) == IF k = 0 THEN 0 ELSE 10 * DigitsVal(s, k - 1) + DigitOf(s[k])

\* the first FracDigits digits of a fraction, in units of 1/Scale
FracVal(s) ==
  DigitsVal([i \in 1..FracDigits |-> IF i <= Len(s) THEN s[i] ELSE "0"], FracDigits)

\* an unsigned decimal literal: digits, optionally a point and digits
Decimal(ip, fp) ==
  IF /\ Len(ip) + Len(fp) > 0
     /\ \A i \in DOMAIN ip : IsDigit(ip[i])
     /\ \A i \in DOMAIN fp : IsDigit(fp[i])
  THEN [t |-> "number", v |-> DigitsVal(ip, Len(ip)) * Scale + FracVal(fp)]
  ELSE [t |-> "NaN"]

UnsignedVal(s) ==
  Let(Split(s, "."), LAMBDA parts :
    IF Len(parts) = 1 THEN Decimal(parts[1].s, <<>>)
    ELSE IF Len(parts) = 2 THEN Decimal(parts[1].s, parts[2].s)
    ELSE [t |-> "NaN"])

Negated(u) == IF u.t = "number" THEN [t |-> "number", v |-> -u.v] ELSE u

\* Number(x) for x a string or undefined: decimal literals (exponents, hex
\* and Infinity are not among the inputs drawn)
NumberOfString(s) ==
  IF s = <<>> THEN [t |-> "number", v |-> 0]
  ELSE IF s[1] = "-" THEN Let(UnsignedVal(Tail(s)), Negated)
  ELSE IF s[1] = "+" THEN UnsignedVal(Tail(s))
  ELSE UnsignedVal(s)

Number(x) == IF x.t # "string" THEN [t |-> "NaN"] ELSE Let(Trim(x.s), NumberOfString)

(***************************************************************************)
(* Numbers: comparison, arithmetic and the 32-bit integer operators.  A    *)
(* comparison with NaN is false; arithmetic on NaN is NaN.                 *)
(***************************************************************************)
Gt(a, n) == IsNum(a) /\ a.v > n * Scale
Lt(a, n) == IsNum(a) /\ a.v < n * Scale
Add(a, n) == IF IsNum(a) THEN Num(a.v + n * Scale) ELSE NaN
\* Math.max(0, a)
Max0(a) == IF IsNum(a) THEN (IF a.v > 0 THEN a ELSE Num(0)) ELSE NaN
\* Number.isNaN
IsNaN(a) == a.t = "NaN"

\* ToInt32: NaN is 0, a fraction is cut off (the values drawn are far below 2^31)
ToInt32(a) ==
  IF ~IsNum(a) THEN 0
  ELSE IF a.v < 0 THEN -((-a.v) \div Scale) ELSE a.v \div Scale

\* bit k of the integer n (two's complement for n < 0)
Bit(n, k) == (n \div (2 ^ k)) % 2

\* a & mask for a mask of at most 8 bits
BitAnd(a, mask) ==
  Let(ToInt32(a), LAMBDA n :
    Bit(n, 0) * Bit(mask, 0) + 2 * Bit(n, 1) * Bit(mask, 1)
      + 4 * Bit(n, 2) * Bit(mask, 2) + 8 * Bit(n, 3) * Bit(mask, 3)
      + 16 * Bit(n, 4) * Bit(mask, 4) + 32 * Bit(n, 5) * Bit(mask, 5)
      + 64 * Bit(n, 6) * Bit(mask, 6) + 128 * Bit(n, 7) * Bit(mask, 7))

\* the number of times `for (let i = 0; i < n; i++)` runs its body
LoopCount(n) ==
  IF ~IsNum(n) \/ n.v <= 0 THEN 0 ELSE (n.v + Scale - 1) \div Scale

(***************************************************************************)
(* The enums.                                                              *)
(***************************************************************************)
SimpleQuadruple == 4
KiaiFlag == 1
OmitFirstBarLineFlag == 8
CircleBit == 1
SliderBit == 2
NewComboBit == 4
SpinnerBit == 8
ComboOffsetMask == 112
HoldBit == 128
WhistleBit == 2
FinishBit == 4
ClapBit == 8
Catmull == 0
Bezier == 1
Linear == 2
PerfectCurve == 3

sNone == <<"N", "o", "n", "e">>
sNormal == <<"N", "o", "r", "m", "a", "l">>
sSoft == <<"S", "o", "f", "t">>
sDrum == <<"D", "r", "u", "m">>
LegacySampleBankNames == <<sNone, sNormal, sSoft, sDrum>>

\* LegacySampleBank[key]: the enum object maps each index to its name and each
\* name to its index; any other key reads undefined
LegacySampleBank(key) ==
  IF IsNum(key)
  THEN IF key.v % Scale = 0 /\ (key.v \div Scale) \in 0..3
       THEN Str(LegacySampleBankNames[(key.v \div Scale) + 1])
       ELSE Undef
  ELSE IF IsStr(key)
  THEN IF \E i \in 1..4 : LegacySampleBankNames[i] = key.s
       THEN Whole((CHOOSE i \in 1..4 : LegacySampleBankNames[i] = key.s) - 1)
       ELSE IF Len(key.s) = 1 /\ key.s[1] \in {"0", "1", "2", "3"}
       THEN Str(LegacySampleBankNames[DigitOf(key.s[1]) + 1])
       ELSE Undef
  ELSE Undef

(***************************************************************************)
(* Exceptions.  A decoder yields either its product or Throw(e).           *)
(***************************************************************************)
NoError == "none"
TypeError == "TypeError"
RepeatCountError == "Error: Repeat count is way too high"
Throw(e) == [t |-> "throw", e |-> e]
IsThrow(x) == "t" \in DOMAIN x /\ x.t = "throw"

\* x.toLowerCase(): a TypeError unless x is a string
toLowerCase(x) == IF IsStr(x) THEN Str(ToLower(x.s)) ELSE Throw(TypeError)

(***************************************************************************)
(* readCustomSampleBanks and convertSoundType.                             *)
(***************************************************************************)
\* const bankInfo: ISampleBankInfo = {}: every property reads undefined
EmptyBankInfo ==
  [Filename |-> Undef, Normal |-> Undef, Add |-> Undef, Volume |-> Undef,
   CustomSampleBank |-> Undef]

\* LegacySampleBank[n].toLowerCase(), with "none" turned into undefined
BankName(n) ==
  Let(toLowerCase(LegacySampleBank(n)), LAMBDA name :
    IF IsThrow(name) THEN name
    ELSE IF name = Str(ToLower(sNone)) THEN Undef ELSE name)

\* bankInfo.Add = stringAddBank === "" ? stringBank : stringAddBank
AddBank(stringBank, stringAddBank) ==
  IF stringAddBank = Str(<<>>) THEN stringBank ELSE stringAddBank

\* the bank info after readCustomSampleBanks(token, bankInfo), or Throw
readCustomSampleBanks(token, bankInfo) ==
  Let(SplitTrim(token.s, ":"), LAMBDA split :
    LET bank == Number(At(split, 0))
        addbank == Number(At(split, 1))
        stringBank == BankName(bank)
        stringAddBank == BankName(addbank)
    IN IF IsThrow(stringBank) THEN stringBank
       ELSE IF IsThrow(stringAddBank) THEN stringAddBank
       ELSE [Normal |-> stringBank,
             Add |-> AddBank(stringBank, stringAddBank),
             CustomSampleBank |->
               IF Len(split) > 2 THEN Number(split[3]) ELSE bankInfo.CustomSampleBank,
             Volume |-> IF Len(split) > 3 THEN Number(split[4]) ELSE bankInfo.Volume,
             Filename |-> IF Len(split) > 4 THEN split[5] ELSE Undef])

\* one descriptor of a named sample
SampleInfo(bank, name, bankInfo) ==
  [Bank |-> bank, Name |-> name, Volume |-> bankInfo.Volume,
   CustomSampleBank |-> bankInfo.CustomSampleBank]

\* the descriptor of an additional sound, if its bit is set in the mask
Addition(type, bit, name, bankInfo) ==
  IF BitAnd(type, bit) # 0 THEN <<SampleInfo(bankInfo.Add, name, bankInfo)>> ELSE <<>>

\* a variant of the expansion that tests Whistle before Finish
convertSoundTypeWhistleFirst(type, bankInfo) ==
  IF IsStr(bankInfo.Filename) /\ bankInfo.Filename.s # <<>>
  THEN <<[Filename |-> bankInfo.Filename]>>
  ELSE <<SampleInfo(bankInfo.Normal, "hitnormal", bankInfo)>>
         \o Addition(type, WhistleBit, "hitwhistle", bankInfo)
         \o Addition(type, FinishBit, "hitfinish", bankInfo)
         \o Addition(type, ClapBit, "hitclap", bankInfo)

convertSoundType(type, bankInfo) ==
  IF IsStr(bankInfo.Filename) /\ bankInfo.Filename.s # <<>>
  THEN <<[Filename |-> bankInfo.Filename]>>
  ELSE <<SampleInfo(bankInfo.Normal, "hitnormal", bankInfo)>>
         \o Addition(type, FinishBit, "hitfinish", bankInfo)
         \o Addition(type, WhistleBit, "hitwhistle", bankInfo)
         \o Addition(type, ClapBit, "hitclap", bankInfo)

(***************************************************************************)
(* The document.                                                           *)
(***************************************************************************)
kAudioFilename == <<"A", "u", "d", "i", "o", "F", "i", "l", "e", "n", "a", "m", "e">>
kAudioLeadIn == <<"A", "u", "d", "i", "o", "L", "e", "a", "d", "I", "n">>
kCountdown == <<"C", "o", "u", "n", "t", "d", "o", "w", "n">>
kLetterboxInBreaks == <<"L", "e", "t", "t", "e", "r", "b", "o", "x", "I", "n", "B", "r", "e", "a", "k", "s">>
kMode == <<"M", "o", "d", "e">>
kPreviewTime == <<"P", "r", "e", "v", "i", "e", "w", "T", "i", "m", "e">>
kSampleSet == <<"S", "a", "m", "p", "l", "e", "S", "e", "t">>
kStackLeniency == <<"S", "t", "a", "c", "k", "L", "e", "n", "i", "e", "n", "c", "y">>
kWidescreenStoryboard == <<"W", "i", "d", "e", "s", "c", "r", "e", "e", "n", "S", "t", "o", "r", "y", "b", "o", "a", "r", "d">>
kApproachRate == <<"A", "p", "p", "r", "o", "a", "c", "h", "R", "a", "t", "e">>
kCircleSize == <<"C", "i", "r", "c", "l", "e", "S", "i", "z", "e">>
kHPDrainRate == <<"H", "P", "D", "r", "a", "i", "n", "R", "a", "t", "e">>
kOverallDifficulty == <<"O", "v", "e", "r", "a", "l", "l", "D", "i", "f", "f", "i", "c", "u", "l", "t", "y">>

\* obj[key] = value
SetKey(obj, key, value) == (key :> value) @@ obj

InitGeneral ==
  [k \in {kAudioFilename, kAudioLeadIn, kCountdown, kLetterboxInBreaks, kMode,
          kPreviewTime, kSampleSet, kStackLeniency, kWidescreenStoryboard} |->
     IF k = kAudioFilename THEN Str(<<>>) ELSE Whole(0)]

InitDifficulty ==
  [k \in {kApproachRate, kCircleSize, kHPDrainRate, kOverallDifficulty} |-> Whole(0)]

(***************************************************************************)
(* parseGeneral and parseDifficulty: the object after the line.            *)
(***************************************************************************)
\* general[key] = ... for the two fields of a line
GeneralValue(key, value) ==
  IF key.s = kSampleSet THEN LegacySampleBank(value)
  ELSE Let(Number(value), LAMBDA num : IF IsNaN(num) THEN value ELSE num)

GeneralAfter(g, ln) ==
  Let(SplitTrim(ln, ":"), LAMBDA split :
    IF Len(split) # 2 THEN g
    ELSE SetKey(g, split[1].s, GeneralValue(split[1], split[2])))

DifficultyAfter(d, ln) ==
  Let(SplitTrim(ln, ":"), LAMBDA split :
    IF Len(split) # 2 THEN d ELSE SetKey(d, split[1].s, Number(split[2])))

(***************************************************************************)
(* parseTimingPoint: the point a record decodes to.                        *)
(***************************************************************************)
Nothing == [t |-> "nothing"]
IsNothing(x) == "t" \in DOMAIN x /\ x.t = "nothing"

\* str[0] === c
FirstCharIs(str, c) == Len(str.s) > 0 /\ str.s[1] = c

\* a variant of the sample set that starts from None, not from the default
SampleSetOfFieldOnly(split, defaultSampleSet) ==
  IF Len(split) >= 4 THEN Number(split[4]) ELSE Whole(0)

\* let sampleSet = defaultSampleSet; overridden by field 3
SampleSetOf(split, defaultSampleSet) ==
  IF Len(split) >= 4 THEN Number(split[4]) ELSE defaultSampleSet

\* a variant of the flag that compares all of field 6 with "1"
TimingChangeWholeField(split) ==
  IF Len(split) >= 7 THEN split[7] = Str(<<"1">>) ELSE TRUE

\* let timingChange = true; overridden by field 6
TimingChange(split) ==
  IF Len(split) >= 7 THEN FirstCharIs(split[7], "1") ELSE TRUE

\* the name of the point's bank, "none" shown as "normal", or Throw
StringSampleSet(sampleSet) ==
  Let(toLowerCase(LegacySampleBank(sampleSet)), LAMBDA name :
    IF IsThrow(name) THEN name
    ELSE IF name = Str(ToLower(sNone)) THEN Str(ToLower(sNormal)) ELSE name)

\* const speedMultiplier = beatLength < 0 ? 100.0 / -beatLength : 1, the
\* quotient cut off after FracDigits digits
SpeedMultiplier(beatLength) ==
  IF Lt(beatLength, 0)
  THEN Num((100 * Scale * Scale) \div (-beatLength.v))
  ELSE Whole(1)

\* the time signature of field 2
TimeSignature(split) ==
  IF Len(split) >= 3
  THEN IF FirstCharIs(split[3], "0") THEN Whole(SimpleQuadruple) ELSE Number(split[3])
  ELSE Whole(SimpleQuadruple)

\* Boolean(effectFlags & flag) for the flags of field 7
EffectFlag(split, flag) == Len(split) >= 8 /\ BitAnd(Number(split[8]), flag) # 0

\* the point of a record of at least two fields, or Throw(e)
TimingPointFrom(split, defaultSampleSet) ==
  Let(StringSampleSet(SampleSetOf(split, defaultSampleSet)), LAMBDA stringSampleSet :
    IF IsThrow(stringSampleSet) THEN stringSampleSet
    ELSE [Time |-> Number(split[1]),
          SpeedMultiplier |-> SpeedMultiplier(Number(split[2])),
          KiaiMode |-> EffectFlag(split, KiaiFlag),
          OmitFirstBarLine |-> EffectFlag(split, OmitFirstBarLineFlag),
          SampleBank |-> stringSampleSet,
          SampleVolume |-> IF Len(split) >= 6 THEN Number(split[6]) ELSE Whole(100),
          CustomSampleBank |-> IF Len(split) >= 5 THEN Number(split[5]) ELSE Whole(0)]
         @@ (IF TimingChange(split)
             THEN [BeatLength |-> Number(split[2]), TimeSignature |-> TimeSignature(split)]
             ELSE <<>>))

\* the timing point of a record: Nothing when the record is dropped, Throw(e)
\* when decoding raises
TimingPointOf(ln, g) ==
  Let(SplitTrim(ln, ","), LAMBDA split :
    IF Len(split) < 2 THEN Nothing ELSE TimingPointFrom(split, g[kSampleSet]))

(***************************************************************************)
(* parseHitObjects: the hit object a record decodes to.                    *)
(***************************************************************************)
\* type &= ~mask
ClearBits(type, mask) == Whole(ToInt32(type) - BitAnd(type, mask))

\* the shape bit tests, in the order of the if / else if chain
IsCircle(type) == BitAnd(type, CircleBit) # 0
IsSlider(type) == BitAnd(type, SliderBit) # 0

\* switch (ptype)
PathTypeOf(ptype) ==
  IF ptype = Str(<<"C">>) THEN Catmull
  ELSE IF ptype = Str(<<"B">>) THEN Bezier
  ELSE IF ptype = Str(<<"L">>) THEN Linear
  ELSE IF ptype = Str(<<"P">>) THEN PerfectCurve
  ELSE Catmull

\* {x: Number(temp[0]), y: Number(temp[1])} for one token
PointOf(token) ==
  Let(SplitTrim(token.s, ":"), LAMBDA temp :
    [x |-> Number(At(temp, 0)), y |-> Number(At(temp, 1))])

\* points.push(...) for each token after the first
PointsOf(path) == Array([i \in 1..(Len(path) - 1) |-> PointOf(path[i + 1])])

\* Math.abs(0 - (p[1].y - p[0].y) * (p[2].x - p[0].x)
\*            - (p[1].x - p[0].x) * (p[2].y - p[0].y)) <= 0.001
isLinear(p) ==
  /\ \A i \in 1..3 : IsNum(p[i].x) /\ IsNum(p[i].y)
  /\ Abs(0 - (p[2].y.v - p[1].y.v) * (p[3].x.v - p[1].x.v)
           - (p[2].x.v - p[1].x.v) * (p[3].y.v - p[1].y.v)) * 1000 <= Scale * Scale

\* the path type after the colinear special case
FinalPathType(pathType, points) ==
  IF Len(points) = 3 /\ pathType = PerfectCurve /\ isLinear(points)
  THEN Linear
  ELSE pathType

MaxRepeatCount == 9000

\* a variant of the guard that is off by one: repeatCount >= 9000
RepeatTooHighFromLimit(repeatCount) ==
  IsNum(repeatCount) /\ repeatCount.v >= MaxRepeatCount * Scale

\* if (repeatCount > 9000) throw
RepeatTooHigh(repeatCount) == Gt(repeatCount, MaxRepeatCount)

\* repeatCount = Math.max(0, repeatCount - 1)
StoredRepeatCount(repeatCount) == Max0(Add(repeatCount, -1))

\* const nodes = repeatCount + 2
Nodes(repeatCount) == Add(repeatCount, 2)

\* the bank info of the record's own token (field k), or Throw
BankInfoOf(split, k) ==
  IF Len(split) > k THEN readCustomSampleBanks(split[k + 1], EmptyBankInfo)
  ELSE EmptyBankInfo

\* the per-node bank infos (or Throw): the default, overlaid by the tokens
NodeBankInfosFrom(sets, n, bankInfo) ==
  Array([i \in 1..n |->
           IF i <= Len(sets) THEN readCustomSampleBanks(sets[i], bankInfo)
           ELSE bankInfo])

\* the tokens are those of field 9, if it is there and not empty
NodeBankInfos(split, n, bankInfo) ==
  IF Len(split) > 9 /\ Len(split[10].s) > 0
  THEN Let(SplitTrim(split[10].s, "|"), LAMBDA sets : NodeBankInfosFrom(sets, n, bankInfo))
  ELSE Array([i \in 1..n |-> bankInfo])

\* Number.isNaN(Number(adds[i])) ? 0 : Number(adds[i])
SoundOf(token) == Let(Number(token), LAMBDA sound : IF IsNaN(sound) THEN Whole(0) ELSE sound)

\* the per-node sound types: the default, overlaid by the tokens
NodeSoundTypesFrom(adds, n, soundType) ==
  Array([i \in 1..n |-> IF i <= Len(adds) THEN SoundOf(adds[i]) ELSE soundType])

\* the tokens are those of field 8, if it is there and not empty
NodeSoundTypes(split, n, soundType) ==
  IF Len(split) > 8 /\ Len(split[9].s) > 0
  THEN Let(SplitTrim(split[9].s, "|"), LAMBDA adds : NodeSoundTypesFrom(adds, n, soundType))
  ELSE Array([i \in 1..n |-> soundType])

\* nodeSamples.push(convertSoundType(nodeSoundTypes[i], nodeBankInfos[i]))
NodeSamples(nodeSoundTypes, nodeBankInfos) ==
  Array([i \in DOMAIN nodeBankInfos |->
           convertSoundType(nodeSoundTypes[i], nodeBankInfos[i])])

\* result.Samples: nodeSamples[nodeSamples.length - 1], which is undefined
\* for an empty list, and then the common code fills Samples in
SliderSamples(nodeSamples, soundType, bankInfo) ==
  IF Len(nodeSamples) > 0 THEN nodeSamples[Len(nodeSamples)]
  ELSE convertSoundType(soundType, bankInfo)

\* the fields every emitted object has, but Samples
Common(split, type0) ==
  [Pos |-> [x |-> Number(At(split, 0)), y |-> Number(At(split, 1))],
   Combo |-> BitAnd(ClearBits(type0, ComboOffsetMask), NewComboBit) # 0,
   ComboOffset |-> Whole(BitAnd(type0, ComboOffsetMask) \div 16),
   StartTime |-> Number(At(split, 2))]

\* the finished slider, given what was decoded without an exception
SliderOf(split, type0, soundType, bankInfo, nodeBankInfos) ==
  Let(SplitTrim(split[6].s, "|"), LAMBDA path :
  Let(PointsOf(path), LAMBDA points :
  Let(NodeSoundTypes(split, Len(nodeBankInfos), soundType), LAMBDA nodeSoundTypes :
  Let(NodeSamples(nodeSoundTypes, nodeBankInfos), LAMBDA nodeSamples :
    Common(split, type0)
      @@ [Points |-> points,
          Length |-> IF Len(split) > 7 THEN Number(split[8]) ELSE Whole(0),
          PathType |-> FinalPathType(PathTypeOf(path[1]), points),
          RepeatCount |-> StoredRepeatCount(Number(At(split, 6))),
          NodeSamples |-> nodeSamples,
          Samples |-> SliderSamples(nodeSamples, soundType, bankInfo)]))))

\* the slider branch
SliderFrom(split, type0, soundType) ==
  IF ~IsStr(At(split, 5)) THEN Throw(TypeError)
  ELSE IF RepeatTooHigh(Number(At(split, 6))) THEN Throw(RepeatCountError)
  ELSE Let(BankInfoOf(split, 10), LAMBDA bankInfo :
         IF IsThrow(bankInfo) THEN bankInfo
         ELSE Let(NodeBankInfos(split,
                                LoopCount(Nodes(StoredRepeatCount(Number(At(split, 6))))),
                                bankInfo),
                  LAMBDA nodeBankInfos :
                    IF \E i \in DOMAIN nodeBankInfos : IsThrow(nodeBankInfos[i])
                    THEN Throw(TypeError)
                    ELSE SliderOf(split, type0, soundType, bankInfo, nodeBankInfos)))

\* a variant of the circle branch that reads its bank token one field late
CircleFromNextField(split, type0, soundType) ==
  Let(BankInfoOf(split, 6), LAMBDA bankInfo :
    IF IsThrow(bankInfo) THEN bankInfo
    ELSE Common(split, type0) @@ [Samples |-> convertSoundType(soundType, bankInfo)])

\* the circle branch
CircleFrom(split, type0, soundType) ==
  Let(BankInfoOf(split, 5), LAMBDA bankInfo :
    IF IsThrow(bankInfo) THEN bankInfo
    ELSE Common(split, type0) @@ [Samples |-> convertSoundType(soundType, bankInfo)])

\* the shape bits left of the type: the combo offset and new combo bits cleared
ShapeOf(type0) == ClearBits(ClearBits(type0, ComboOffsetMask), NewComboBit)

\* the object of a split record; Spinner, Hold and no shape at all attach
\* nothing: Object.keys(result) is empty and the record is left out
HitObjectFrom(split, type0, type) ==
  IF IsCircle(type) THEN CircleFrom(split, type0, Number(At(split, 4)))
  ELSE IF IsSlider(type) THEN SliderFrom(split, type0, Number(At(split, 4)))
  ELSE Nothing

\* the hit object of a record: Nothing when none is emitted, Throw(e) when
\* decoding raises
HitObjectOf(ln) ==
  Let(SplitTrim(ln, ","), LAMBDA split :
  Let(Number(At(split, 3)), LAMBDA type0 :
  Let(ShapeOf(type0), LAMBDA type : HitObjectFrom(split, type0, type))))

(***************************************************************************)
(* The input lines drawn.                                                  *)
(***************************************************************************)
\* [General]
HdrGeneral ==
  <<"[", "G", "e", "n", "e", "r", "a", "l", "]">>
\* [Difficulty]
HdrDifficulty ==
  <<"[", "D", "i", "f", "f", "i", "c", "u", "l", "t", "y", "]">>
\* [TimingPoints]
HdrTimingPoints ==
  <<"[", "T", "i", "m", "i", "n", "g", "P", "o", "i", "n", "t", "s", "]">>
\* [HitObjects]
HdrHitObjects ==
  <<"[", "H", "i", "t", "O", "b", "j", "e", "c", "t", "s", "]">>
\* [Events]
HdrEvents ==
  <<"[", "E", "v", "e", "n", "t", "s", "]">>
\* [Colours]
HdrColours ==
  <<"[", "C", "o", "l", "o", "u", "r", "s", "]">>
\* [valueOf]
HdrValueOf ==
  <<"[", "v", "a", "l", "u", "e", "O", "f", "]">>
\* [toString]
HdrToString ==
  <<"[", "t", "o", "S", "t", "r", "i", "n", "g", "]">>
\* [Hit Objects]
HdrBroken ==
  <<"[", "H", "i", "t", " ", "O", "b", "j", "e", "c", "t", "s", "]">>
\* SampleSet: Soft
GenSoft ==
  <<"S", "a", "m", "p", "l", "e", "S", "e", "t", ":", " ", "S", "o", "f",
    "t">>
\* SampleSet: Bogus
GenBogus ==
  <<"S", "a", "m", "p", "l", "e", "S", "e", "t", ":", " ", "B", "o", "g",
    "u", "s">>
\* SampleSet:Drum
GenDrum ==
  <<"S", "a", "m", "p", "l", "e", "S", "e", "t", ":", "D", "r", "u", "m">>
\* Mode: 1
GenMode ==
  <<"M", "o", "d", "e", ":", " ", "1">>
\* Title:a:b
GenTitle ==
  <<"T", "i", "t", "l", "e", ":", "a", ":", "b">>
\* 100
TpOneField ==
  <<"1", "0", "0">>
\* 0,500
TpTwoFields ==
  <<"0", ",", "5", "0", "0">>
\* 5,-200,3
TpThreeFields ==
  <<"5", ",", "-", "2", "0", "0", ",", "3">>
\* 0,500,4,3
TpBank ==
  <<"0", ",", "5", "0", "0", ",", "4", ",", "3">>
\* 9,-200,4,2,0,50,0,1
TpInherited ==
  <<"9", ",", "-", "2", "0", "0", ",", "4", ",", "2", ",", "0", ",", "5",
    "0", ",", "0", ",", "1">>
\* 0,500,4,1,0,100,1,8
TpUninherited ==
  <<"0", ",", "5", "0", "0", ",", "4", ",", "1", ",", "0", ",", "1", "0",
    "0", ",", "1", ",", "8">>
\* 0,500,04,1,0,100,
TpEmptyChange ==
  <<"0", ",", "5", "0", "0", ",", "0", "4", ",", "1", ",", "0", ",", "1",
    "0", "0", ",">>
\* 0,500,4,1,0,100,10
TpTenChange ==
  <<"0", ",", "5", "0", "0", ",", "4", ",", "1", ",", "0", ",", "1", "0",
    "0", ",", "1", "0">>
\* 0,500,4,5
TpBadBank ==
  <<"0", ",", "5", "0", "0", ",", "4", ",", "5">>
\* 0,500,4,x
TpNoBank ==
  <<"0", ",", "5", "0", "0", ",", "4", ",", "x">>
\* 0,0,5,2,0,B,9001
TpRepeat ==
  <<"0", ",", "0", ",", "5", ",", "2", ",", "0", ",", "B", ",", "9", "0",
    "0", "1">>
\* 256,256,1000,1,0,0:0:0:0:,1,70,8|0,0|0,0:0|0:0,0:0:0:0:
HoSpecRecord ==
  <<"2", "5", "6", ",", "2", "5", "6", ",", "1", "0", "0", "0", ",", "1",
    ",", "0", ",", "0", ":", "0", ":", "0", ":", "0", ":", ",", "1", ",",
    "7", "0", ",", "8", "|", "0", ",", "0", "|", "0", ",", "0", ":", "0",
    "|", "0", ":", "0", ",", "0", ":", "0", ":", "0", ":", "0", ":">>
\* 0,0,5,2,0,P|0:0|1:1|2:2,1
HoDiagonal ==
  <<"0", ",", "0", ",", "5", ",", "2", ",", "0", ",", "P", "|", "0", ":",
    "0", "|", "1", ":", "1", "|", "2", ":", "2", ",", "1">>
\* 0,0,5,2,0,P|0:0|1:0|2:0,2
HoHorizontal ==
  <<"0", ",", "0", ",", "5", ",", "2", ",", "0", ",", "P", "|", "0", ":",
    "0", "|", "1", ":", "0", "|", "2", ":", "0", ",", "2">>
\* 0,0,5,2,0,P|0:0|1:0|0:1,1
HoCorner ==
  <<"0", ",", "0", ",", "5", ",", "2", ",", "0", ",", "P", "|", "0", ":",
    "0", "|", "1", ":", "0", "|", "0", ":", "1", ",", "1">>
\* 0,0,5,2,0,P|1:1|2:2|2:0,1
HoBent ==
  <<"0", ",", "0", ",", "5", ",", "2", ",", "0", ",", "P", "|", "1", ":",
    "1", "|", "2", ":", "2", "|", "2", ":", "0", ",", "1">>
\* 0,0,5,2,0,P|0:0|1:1|2:2|3:3,1
HoFourPoints ==
  <<"0", ",", "0", ",", "5", ",", "2", ",", "0", ",", "P", "|", "0", ":",
    "0", "|", "1", ":", "1", "|", "2", ":", "2", "|", "3", ":", "3", ",",
    "1">>
\* 0,0,5,6,2,L|1:1,2.5,70,8|0,2:1|0:0,1:2:3:40:
HoFraction ==
  <<"0", ",", "0", ",", "5", ",", "6", ",", "2", ",", "L", "|", "1", ":",
    "1", ",", "2", ".", "5", ",", "7", "0", ",", "8", "|", "0", ",", "2",
    ":", "1", "|", "0", ":", "0", ",", "1", ":", "2", ":", "3", ":", "4",
    "0", ":">>
\* 1,1,5,2,4,B|1:1,x
HoNotANumber ==
  <<"1", ",", "1", ",", "5", ",", "2", ",", "4", ",", "B", "|", "1", ":",
    "1", ",", "x">>
\* 1,1,5,2,4,C|1:1
HoNoRepeat ==
  <<"1", ",", "1", ",", "5", ",", "2", ",", "4", ",", "C", "|", "1", ":",
    "1">>
\* 1,1,5,2,4
HoShort ==
  <<"1", ",", "1", ",", "5", ",", "2", ",", "4">>
\* 1,1,5,2,4,B|1:1,9001
HoTooHigh ==
  <<"1", ",", "1", ",", "5", ",", "2", ",", "4", ",", "B", "|", "1", ":",
    "1", ",", "9", "0", "0", "1">>
\* 1,1,5,2,14,B|1:1,9000
HoHighest ==
  <<"1", ",", "1", ",", "5", ",", "2", ",", "1", "4", ",", "B", "|", "1",
    ":", "1", ",", "9", "0", "0", "0">>
\* 1,1,5,2,0,L|1:1,0
HoZero ==
  <<"1", ",", "1", ",", "5", ",", "2", ",", "0", ",", "L", "|", "1", ":",
    "1", ",", "0">>
\* 1,1,5,34,6,L|1:1,3,70.5,2|x,1:3
HoThree ==
  <<"1", ",", "1", ",", "5", ",", "3", "4", ",", "6", ",", "L", "|", "1",
    ":", "1", ",", "3", ",", "7", "0", ".", "5", ",", "2", "|", "x", ",",
    "1", ":", "3">>
\* 1,1,5,2,0,B|1:1,3,70,,0:0|7:0
HoNodeBadBank ==
  <<"1", ",", "1", ",", "5", ",", "2", ",", "0", ",", "B", "|", "1", ":",
    "1", ",", "3", ",", "7", "0", ",", ",", "0", ":", "0", "|", "7", ":",
    "0">>
\* 1,1,5,12,4
HoSpinner ==
  <<"1", ",", "1", ",", "5", ",", "1", "2", ",", "4">>
\* 1,1,5,128,4
HoHold ==
  <<"1", ",", "1", ",", "5", ",", "1", "2", "8", ",", "4">>
\* 1,1,5,5,10,2::0:0:
HoEmptyAdd ==
  <<"1", ",", "1", ",", "5", ",", "5", ",", "1", "0", ",", "2", ":", ":",
    "0", ":", "0", ":">>
\* 1,1,5,2,7,L|1:1,3,70,,1:0|2:1|3:2|0:3
HoAddBanks ==
  <<"1", ",", "1", ",", "5", ",", "2", ",", "7", ",", "L", "|", "1", ":",
    "1", ",", "3", ",", "7", "0", ",", ",", "1", ":", "0", "|", "2", ":",
    "1", "|", "3", ":", "2", "|", "0", ":", "3">>
\* 1,1,5,1,0,7:0
HoBadBank ==
  <<"1", ",", "1", ",", "5", ",", "1", ",", "0", ",", "7", ":", "0">>
\* 1,1,5,1,0,2
HoNoAdd ==
  <<"1", ",", "1", ",", "5", ",", "1", ",", "0", ",", "2">>
\* 1,1,5,1,2,1:2:0:0:a.wav
HoFilename ==
  <<"1", ",", "1", ",", "5", ",", "1", ",", "2", ",", "1", ":", "2", ":",
    "0", ":", "0", ":", "a", ".", "w", "a", "v">>
\* 1,1,5,1,15
HoAllSounds ==
  <<"1", ",", "1", ",", "5", ",", "1", ",", "1", "5">>
\* 1,1,5,1,1,3:3
HoOnlyNormal ==
  <<"1", ",", "1", ",", "5", ",", "1", ",", "1", ",", "3", ":", "3">>
\* 1,1,5,1,x
HoNoSound ==
  <<"1", ",", "1", ",", "5", ",", "1", ",", "x">>
\* 2,2,7,1,2,1:1:2:30
HoWhistle ==
  <<"2", ",", "2", ",", "7", ",", "1", ",", "2", ",", "1", ":", "1", ":", "2", ":", "3", "0">>
\* 3,3,9,21,8,0:3
HoClapDrum ==
  <<"3", ",", "3", ",", "9", ",", "2", "1", ",", "8", ",", "0", ":", "3">>
\* (the empty line)
HoBlank ==
  <<>>

\* every section, a few records
Lines ==
  {HdrGeneral, HdrDifficulty, HdrTimingPoints, HdrHitObjects, HdrEvents, HdrValueOf,
   HdrToString, HdrBroken, GenSoft, GenMode, TpUninherited, TpBadBank, TpRepeat}

\* General and TimingPoints
TimingLines ==
  {HdrGeneral, HdrTimingPoints, GenSoft, GenBogus, GenDrum, GenTitle,
   TpOneField, TpTwoFields, TpThreeFields, TpBank, TpInherited, TpUninherited,
   TpEmptyChange, TpTenChange, TpBadBank, TpNoBank}

\* HitObjects: the sliders' paths and repeat counts
SliderLines ==
  {HdrHitObjects, HoDiagonal, HoHorizontal, HoCorner, HoBent, HoFourPoints, HoFraction,
   HoNotANumber, HoNoRepeat, HoShort, HoTooHigh, HoHighest, HoZero, HoSpinner}

\* HitObjects: the sample banks and sounds
SampleLines ==
  {HdrHitObjects, HoSpecRecord, HoThree, HoNodeBadBank, HoHold, HoEmptyAdd, HoAddBanks,
   HoBadBank, HoNoAdd, HoFilename, HoAllSounds, HoOnlyNormal, HoNoSound, HoWhistle,
   HoClapDrum, HoBlank}

\* the lines drawn for the repeat count: sliders up to, at and above the limit
RepeatLines ==
  {HdrHitObjects, HdrEvents, HdrColours, HoTooHigh, HoHighest, HoZero, HoHorizontal,
   HoDiagonal, HoFourPoints, HoShort}

(***************************************************************************)
(* The router: parse, parseSection and parseLine.                          *)
(***************************************************************************)
StartsWith(ln, c) == Len(ln) > 0 /\ ln[1] = c

\* the regex /\[([\w\d]+)\]/ matches ln at i, its bracket closing at j
MatchAt(ln, i, j) ==
  /\ ln[i] = "["
  /\ j >= i + 2
  /\ ln[j] = "]"
  /\ \A k \in (i + 1)..(j - 1) : IsWordChar(ln[k])

\* result[1] of the leftmost match, or undefined when exec() gives null
SectionOf(ln) ==
  IF \E i, j \in DOMAIN ln : MatchAt(ln, i, j)
  THEN LET i == CHOOSE a \in DOMAIN ln :
                  /\ \E j \in DOMAIN ln : MatchAt(ln, a, j)
                  /\ \A b \in 1..(a - 1) : \A j \in DOMAIN ln : ~MatchAt(ln, b, j)
       IN Str(SubSeq(ln, i + 1, (CHOOSE j \in DOMAIN ln : MatchAt(ln, i, j)) - 1))
  ELSE Undef

sGeneral == <<"G", "e", "n", "e", "r", "a", "l">>
sDifficulty == <<"D", "i", "f", "f", "i", "c", "u", "l", "t", "y">>
sTimingPoints == <<"T", "i", "m", "i", "n", "g", "P", "o", "i", "n", "t", "s">>
sHitObjects == <<"H", "i", "t", "O", "b", "j", "e", "c", "t", "s">>

\* the members every object literal inherits from Object.prototype, by what a
\* plain call parser(line) of the member does: the builtins that convert
\* their receiver (undefined in such a call) raise a TypeError, and so does
\* calling __proto__, which is an object and not a function
InheritedQuiet ==
  {<<"c", "o", "n", "s", "t", "r", "u", "c", "t", "o", "r">>,
   <<"t", "o", "S", "t", "r", "i", "n", "g">>,
   <<"i", "s", "P", "r", "o", "t", "o", "t", "y", "p", "e", "O", "f">>}
InheritedRaising ==
  {<<"h", "a", "s", "O", "w", "n", "P", "r", "o", "p", "e", "r", "t", "y">>,
   <<"v", "a", "l", "u", "e", "O", "f">>,
   <<"p", "r", "o", "p", "e", "r", "t", "y", "I", "s", "E", "n", "u", "m", "e", "r", "a", "b", "l", "e">>,
   <<"t", "o", "L", "o", "c", "a", "l", "e", "S", "t", "r", "i", "n", "g">>,
   <<"_", "_", "p", "r", "o", "t", "o", "_", "_">>,
   <<"_", "_", "d", "e", "f", "i", "n", "e", "G", "e", "t", "t", "e", "r", "_", "_">>,
   <<"_", "_", "d", "e", "f", "i", "n", "e", "S", "e", "t", "t", "e", "r", "_", "_">>,
   <<"_", "_", "l", "o", "o", "k", "u", "p", "G", "e", "t", "t", "e", "r", "_", "_">>,
   <<"_", "_", "l", "o", "o", "k", "u", "p", "S", "e", "t", "t", "e", "r", "_", "_">>}

\* parsers[this.currentSection] ? parsers[this.currentSection] : () => null
ParserFor(section) ==
  IF section \in {sGeneral, sDifficulty, sTimingPoints, sHitObjects} THEN section
  ELSE IF section \in InheritedQuiet THEN <<"quiet">>
  ELSE IF section \in InheritedRaising THEN <<"raising">>
  ELSE <<"null">>

Init ==
  /\ currentSection = <<>>
  /\ general = InitGeneral
  /\ difficulty = InitDifficulty
  /\ timingPoints = <<>>
  /\ hitObjects = <<>>
  /\ thrown = NoError

\* parse(line) is called while no exception has ended the run
Running == thrown = NoError

parseSection(ln) ==
  /\ Running
  /\ StartsWith(ln, "[")
  /\ \E result \in {SectionOf(ln)} :
       currentSection' = IF IsStr(result) THEN result.s ELSE currentSection
  /\ UNCHANGED <<general, difficulty, timingPoints, hitObjects, thrown>>

parseGeneral(ln) ==
  /\ Running
  /\ ~StartsWith(ln, "[")
  /\ ParserFor(currentSection) = sGeneral
  /\ general' = GeneralAfter(general, ln)
  /\ UNCHANGED <<currentSection, difficulty, timingPoints, hitObjects, thrown>>

parseDifficulty(ln) ==
  /\ Running
  /\ ~StartsWith(ln, "[")
  /\ ParserFor(currentSection) = sDifficulty
  /\ difficulty' = DifficultyAfter(difficulty, ln)
  /\ UNCHANGED <<currentSection, general, timingPoints, hitObjects, thrown>>

parseTimingPoint(ln) ==
  /\ Running
  /\ ~StartsWith(ln, "[")
  /\ ParserFor(currentSection) = sTimingPoints
  /\ Len(timingPoints) < MaxTimingPoints
  /\ \E timingPoint \in {TimingPointOf(ln, general)} :
       IF IsThrow(timingPoint)
       THEN thrown' = timingPoint.e /\ UNCHANGED timingPoints
       ELSE /\ UNCHANGED thrown
            /\ timingPoints' = IF IsNothing(timingPoint) THEN timingPoints
                               ELSE Append(timingPoints, timingPoint)
  /\ UNCHANGED <<currentSection, general, difficulty, hitObjects>>

parseHitObjects(ln) ==
  /\ Running
  /\ ~StartsWith(ln, "[")
  /\ ParserFor(currentSection) = sHitObjects
  /\ Len(hitObjects) < MaxHitObjects
  /\ \E result \in {HitObjectOf(ln)} :
       IF IsThrow(result)
       THEN thrown' = result.e /\ UNCHANGED hitObjects
       ELSE /\ UNCHANGED thrown
            /\ hitObjects' = IF IsNothing(result) THEN hitObjects
                             ELSE Append(hitObjects, result)
  /\ UNCHANGED <<currentSection, general, difficulty, timingPoints>>

\* no decoder under the section's name: () => null
noParser(ln) ==
  /\ Running
  /\ ~StartsWith(ln, "[")
  /\ ParserFor(currentSection) = <<"null">>
  /\ UNCHANGED vars

\* the section's name is a member inherited from Object.prototype, which is
\* then called in the decoder's place
inheritedMember(ln) ==
  /\ Running
  /\ ~StartsWith(ln, "[")
  /\ ParserFor(currentSection) \in {<<"quiet">>, <<"raising">>}
  /\ thrown' = IF ParserFor(currentSection) = <<"raising">> THEN TypeError ELSE NoError
  /\ UNCHANGED <<currentSection, general, difficulty, timingPoints, hitObjects>>

\* parse(line), for any line
parse(ln) ==
  \/ parseSection(ln)
  \/ parseGeneral(ln)
  \/ parseDifficulty(ln)
  \/ parseTimingPoint(ln)
  \/ parseHitObjects(ln)
  \/ noParser(ln)
  \/ inheritedMember(ln)

Next ==
  \E ln \in Lines :
    \/ parseSection(ln)
    \/ parseGeneral(ln)
    \/ parseDifficulty(ln)
    \/ parseTimingPoint(ln)
    \/ parseHitObjects(ln)
    \/ noParser(ln)
    \/ inheritedMember(ln)

Spec == Init /\ [][Next]_vars

NextTiming ==
  \E ln \in TimingLines :
    \/ parseSection(ln)
    \/ parseGeneral(ln)
    \/ parseTimingPoint(ln)
    \/ noParser(ln)

SpecTiming == Init /\ [][NextTiming]_vars

NextSlider ==
  \E ln \in SliderLines :
    \/ parseSection(ln)
    \/ parseHitObjects(ln)
    \/ noParser(ln)

SpecSlider == Init /\ [][NextSlider]_vars

NextSample ==
  \E ln \in SampleLines :
    \/ parseSection(ln)
    \/ parseHitObjects(ln)
    \/ noParser(ln)

SpecSample == Init /\ [][NextSample]_vars

NextRepeat ==
  \E ln \in RepeatLines :
    \/ parseSection(ln)
    \/ parseHitObjects(ln)
    \/ noParser(ln)

SpecRepeat == Init /\ [][NextRepeat]_vars

(***************************************************************************)
(* What the claims speak of.                                               *)
(***************************************************************************)
Last(seq) == seq[Len(seq)]

\* the step appended one element to seq
Appended(seq, seqAfter) ==
  Len(seqAfter) = Len(seq) + 1 /\ SubSeq(seqAfter, 1, Len(seq)) = seq

\* field k of a comma-separated record (undefined past its end)
Field(ln, k) == At(SplitTrim(ln, ","), k)
NumFields(ln) == Len(SplitTrim(ln, ","))

IsSliderObject(h) == "NodeSamples" \in DOMAIN h

KnownSections == {sGeneral, sDifficulty, sTimingPoints, sHitObjects}

(***************************************************************************)
(* C1.  Every slider in the document has RepeatCount + 2 node sample       *)
(* lists, and its Samples are the last of them, whatever the repeat-count  *)
(* field held.                                                             *)
(***************************************************************************)
C1_NodeSamplesMatchRepeatCount ==
  \A i \in DOMAIN hitObjects :
    IsSliderObject(hitObjects[i]) =>
      /\ IsNum(hitObjects[i].RepeatCount)
      /\ Len(hitObjects[i].NodeSamples) * Scale = hitObjects[i].RepeatCount.v + 2 * Scale
      /\ hitObjects[i].Samples = Last(hitObjects[i].NodeSamples)

(***************************************************************************)
(* C2.  A slider record whose path is P with exactly three points is       *)
(* emitted Linear when the points are collinear (the cross product of      *)
(* p1 - p0 and p2 - p0 is at most 0.001 in magnitude) and PerfectCurve     *)
(* when they are not.                                                      *)
(***************************************************************************)
\* the path field of a slider record, split at the pipes
PathOf(ln) == SplitTrim(Field(ln, 5).s, "|")

IsPerfectCurveOfThree(ln) ==
  /\ IsStr(Field(ln, 5))
  /\ Len(PathOf(ln)) = 4
  /\ PathOf(ln)[1] = Str(<<"P">>)

\* |(p1 - p0) x (p2 - p0)| <= 0.001
Collinear(p) ==
  Abs((p[2].x.v - p[1].x.v) * (p[3].y.v - p[1].y.v)
        - (p[2].y.v - p[1].y.v) * (p[3].x.v - p[1].x.v)) * 1000 <= Scale * Scale

C2_CollinearPerfectCurveIsLinear ==
  [][\A ln \in SliderLines :
       (/\ IsPerfectCurveOfThree(ln)
        /\ parseHitObjects(ln)
        /\ Appended(hitObjects, hitObjects')
        /\ IsSliderObject(Last(hitObjects')))
       => Last(hitObjects').PathType =
            IF Collinear(Last(hitObjects').Points) THEN Linear ELSE PerfectCurve]_vars

(***************************************************************************)
(* C3.  The only failure parse() raises is the repeat-count overflow.      *)
(***************************************************************************)
C3_OnlyRepeatCountFails == thrown \in {NoError, RepeatCountError}

(***************************************************************************)
(* C4.  An otherwise valid slider record fails exactly when its repeat     *)
(* count exceeds 9000, and the failing record leaves the document and the  *)
(* current section as they were.                                           *)
(***************************************************************************)
IsNumber(x) == IsStr(x) /\ x.s # <<>> /\ IsNum(Number(x))

\* a slider record whose fields, but perhaps the repeat count, are valid:
\* numbers, a type with the Slider bit and without the Circle bit, a path
\* letter with x:y points, and no sample fields or valid ones
IsValidSliderRecord(ln) ==
  /\ NumFields(ln) \in {7, 8}
  /\ \A k \in {0, 1, 2, 3, 4, 6} : IsNumber(Field(ln, k))
  /\ NumFields(ln) = 8 => IsNumber(Field(ln, 7))
  /\ Number(Field(ln, 3)).v \in {2 * Scale, 6 * Scale}
  /\ PathOf(ln)[1] \in {Str(<<"C">>), Str(<<"B">>), Str(<<"L">>), Str(<<"P">>)}
  /\ \A i \in 2..Len(PathOf(ln)) :
       LET xy == SplitTrim(PathOf(ln)[i].s, ":")
       IN Len(xy) = 2 /\ IsNumber(xy[1]) /\ IsNumber(xy[2])

C4_RepeatCountOverflowAborts ==
  [][\A ln \in RepeatLines :
       IsValidSliderRecord(ln) =>
         /\ (Number(Field(ln, 6)).v > 9000 * Scale /\ parseHitObjects(ln))
              => thrown' = RepeatCountError /\ UNCHANGED doc
         /\ (Number(Field(ln, 6)).v <= 9000 * Scale /\ thrown' # NoError)
              => ~parseHitObjects(ln)]_vars

C4_Witness == thrown = RepeatCountError /\ Len(hitObjects) = 1

(***************************************************************************)
(* C5.  Without a filename, a sample list is hitnormal on the normal bank, *)
(* then hitfinish, hitwhistle and hitclap on the add bank, each present    *)
(* exactly when its bit (4, 2, 8) is set in the sound mask, all with the   *)
(* bank info's volume and custom sample bank.  This holds of the Samples   *)
(* of every circle and of every node of every slider.                      *)
(***************************************************************************)
HasBit(mask, bit) == (ToInt32(mask) \div bit) % 2 = 1

ExpectedNames(mask) ==
  <<"hitnormal">>
    \o (IF HasBit(mask, 4) THEN <<"hitfinish">> ELSE <<>>)
    \o (IF HasBit(mask, 2) THEN <<"hitwhistle">> ELSE <<>>)
    \o (IF HasBit(mask, 8) THEN <<"hitclap">> ELSE <<>>)

HasFilename(bankInfo) == IsStr(bankInfo.Filename) /\ bankInfo.Filename.s # <<>>

IsExpansion(samples, mask, bankInfo) ==
  /\ Len(samples) = Len(ExpectedNames(mask))
  /\ \A k \in DOMAIN samples :
       /\ DOMAIN samples[k] = {"Bank", "Name", "Volume", "CustomSampleBank"}
       /\ samples[k].Name = ExpectedNames(mask)[k]
       /\ samples[k].Bank = IF k = 1 THEN bankInfo.Normal ELSE bankInfo.Add
       /\ samples[k].Volume = bankInfo.Volume
       /\ samples[k].CustomSampleBank = bankInfo.CustomSampleBank

\* the sound mask and the bank info of node k of a slider record of n nodes
NodeSound(ln, n, k) == NodeSoundTypes(SplitTrim(ln, ","), n, Number(Field(ln, 4)))[k]
NodeBank(ln, n, k) ==
  NodeBankInfos(SplitTrim(ln, ","), n, BankInfoOf(SplitTrim(ln, ","), 10))[k]

ExpandedInOrder(ln, h) ==
  IF IsSliderObject(h)
  THEN \A k \in DOMAIN h.NodeSamples :
         HasFilename(NodeBank(ln, Len(h.NodeSamples), k))
           \/ IsExpansion(h.NodeSamples[k], NodeSound(ln, Len(h.NodeSamples), k),
                          NodeBank(ln, Len(h.NodeSamples), k))
  ELSE HasFilename(BankInfoOf(SplitTrim(ln, ","), 5))
         \/ IsExpansion(h.Samples, Number(Field(ln, 4)), BankInfoOf(SplitTrim(ln, ","), 5))

C5_SoundsExpandInFixedOrder ==
  [][\A ln \in SampleLines :
       (parseHitObjects(ln) /\ Appended(hitObjects, hitObjects'))
         => ExpandedInOrder(ln, Last(hitObjects'))]_vars

C5_Witness ==
  \E i \in DOMAIN hitObjects :
    /\ ~IsSliderObject(hitObjects[i])
    /\ Len(hitObjects[i].Samples) = 4
    /\ hitObjects[i].Samples[2].Name = "hitfinish"
    /\ hitObjects[i].Samples[3].Name = "hitwhistle"

(***************************************************************************)
(* C6.  The line "SampleSet: Soft" sets general.SampleSet to 2, and a      *)
(* timing-point record decoded while it is 2 gets the bank "soft" when it  *)
(* has fewer than 4 fields, and the bank of field 3 when it has that       *)
(* field.  The points emitted before are not changed.                      *)
(***************************************************************************)
\* the bank a timing point shows for the index in field 3
BankOfField(x) ==
  IF Number(x) = Whole(2) THEN Str(<<"s", "o", "f", "t">>)
  ELSE IF Number(x) = Whole(3) THEN Str(<<"d", "r", "u", "m">>)
  ELSE Str(<<"n", "o", "r", "m", "a", "l">>)

C6_SoftIsTheDefaultBank ==
  [][/\ parseGeneral(GenSoft) => general'[kSampleSet] = Whole(2)
     /\ (\E ln \in TimingLines : parseGeneral(ln)) => timingPoints' = timingPoints
     /\ \A ln \in TimingLines :
          (/\ parseTimingPoint(ln)
           /\ general[kSampleSet] = Whole(2)
           /\ timingPoints' # timingPoints)
          => /\ Appended(timingPoints, timingPoints')
             /\ Last(timingPoints').SampleBank =
                  IF NumFields(ln) < 4 THEN Str(<<"s", "o", "f", "t">>)
                  ELSE BankOfField(Field(ln, 3))]_vars

C6_Witness ==
  /\ general[kSampleSet] = Whole(2)
  /\ Len(timingPoints) = 2
  /\ timingPoints[1].Time = Whole(0)
  /\ timingPoints[1].SampleBank = Str(<<"n", "o", "r", "m", "a", "l">>)
  /\ timingPoints[2].Time = Whole(5)
  /\ timingPoints[2].SampleBank = Str(<<"s", "o", "f", "t">>)

(***************************************************************************)
(* C7.  A timing point carries BeatLength and TimeSignature when its       *)
(* record has no field 6 or a field 6 that starts with "1", and neither of *)
(* them otherwise; no point carries exactly one of the two.                *)
(***************************************************************************)
TempoDefining(ln) ==
  \/ NumFields(ln) < 7
  \/ IsStr(Field(ln, 6)) /\ Field(ln, 6).s # <<>> /\ Head(Field(ln, 6).s) = "1"

C7_BeatLengthIffTempoDefining ==
  [][/\ \A i \in DOMAIN timingPoints' :
          ("BeatLength" \in DOMAIN timingPoints'[i])
            <=> ("TimeSignature" \in DOMAIN timingPoints'[i])
     /\ \A ln \in TimingLines :
          (parseTimingPoint(ln) /\ Appended(timingPoints, timingPoints'))
          => (("BeatLength" \in DOMAIN Last(timingPoints')) <=> TempoDefining(ln))]_vars

C7_Witness ==
  /\ Len(timingPoints) = 2
  /\ "BeatLength" \notin DOMAIN timingPoints[1]
  /\ "TimeSignature" \notin DOMAIN timingPoints[1]
  /\ "BeatLength" \in DOMAIN timingPoints[2]
  /\ "TimeSignature" \in DOMAIN timingPoints[2]
  /\ timingPoints[2].SampleVolume = Whole(100)
  /\ timingPoints[2].OmitFirstBarLine = FALSE

(***************************************************************************)
(* C8.  As claimed: the record                                             *)
(*   256,256,1000,1,0,0:0:0:0:,1,70,8|0,0|0,0:0|0:0,0:0:0:0:               *)
(* is emitted as a slider with RepeatCount 0 and two nodes, its path type  *)
(* that of the first pipe token of field 5.                                *)
(***************************************************************************)
C8_SpecRecordIsSlider ==
  [][(parseHitObjects(HoSpecRecord) /\ hitObjects' # hitObjects)
       => /\ IsSliderObject(Last(hitObjects'))
          /\ Last(hitObjects').RepeatCount = Whole(0)
          /\ Len(Last(hitObjects').NodeSamples) = 2
          /\ Last(hitObjects').PathType = PathTypeOf(PathOf(HoSpecRecord)[1])]_vars

(***************************************************************************)
(* C8, amended.  The record's type is 1, the Circle bit, so it is emitted  *)
(* as a circle: at (256, 256), starting at 1000, without RepeatCount,      *)
(* NodeSamples, Points, Length or PathType, and with the one sample        *)
(* hitnormal, of no bank, at the volume 0 and custom sample bank 0 of      *)
(* field 5.                                                                *)
(***************************************************************************)
SpecRecordCircle ==
  [Pos |-> [x |-> Whole(256), y |-> Whole(256)],
   Combo |-> FALSE,
   ComboOffset |-> Whole(0),
   StartTime |-> Whole(1000),
   Samples |-> <<[Bank |-> Undef, Name |-> "hitnormal", Volume |-> Whole(0),
                  CustomSampleBank |-> Whole(0)]>>]

C8_SpecRecordIsCircle ==
  [][parseHitObjects(HoSpecRecord)
       => hitObjects' = Append(hitObjects, SpecRecordCircle)]_vars

C8_Witness == \E i \in DOMAIN hitObjects : hitObjects[i] = SpecRecordCircle

(***************************************************************************)
(* C9.  While the current section is none of General, Difficulty,          *)
(* TimingPoints and HitObjects, a line that is no header changes nothing   *)
(* and raises no error.                                                    *)
(***************************************************************************)
C9_UnknownSectionIgnoresLines ==
  [][\A ln \in Lines :
       (/\ currentSection \notin KnownSections
        /\ ~StartsWith(ln, "[")
        /\ parse(ln))
       => UNCHANGED doc /\ thrown' = NoError]_vars

(***************************************************************************)
(* C10.  The Add bank of a sample-bank token is the name of its addbank    *)
(* index (none for 0), and the name of its bank index when the addbank     *)
(* part is empty.                                                          *)
(***************************************************************************)
\* the name of a bank index of a token: undefined for 0
NameOfIndex(x) ==
  IF Number(x) = Whole(1) THEN Str(<<"n", "o", "r", "m", "a", "l">>)
  ELSE IF Number(x) = Whole(2) THEN Str(<<"s", "o", "f", "t">>)
  ELSE IF Number(x) = Whole(3) THEN Str(<<"d", "r", "u", "m">>)
  ELSE Undef

ClaimedAddBank(token) ==
  LET part == SplitTrim(token.s, ":")
  IN IF part[2].s = <<>> THEN NameOfIndex(part[1]) ELSE NameOfIndex(part[2])

C10_EmptyAddBankFallsBack ==
  [][\A ln \in SampleLines :
       (/\ NumFields(ln) = 6
        /\ parseHitObjects(ln)
        /\ Appended(hitObjects, hitObjects')
        /\ ~HasFilename(BankInfoOf(SplitTrim(ln, ","), 5)))
       => \A k \in 2..Len(Last(hitObjects').Samples) :
            Last(hitObjects').Samples[k].Bank = ClaimedAddBank(Field(ln, 5))]_vars

====
